---- MODULE Spec2Model ----
(***************************************************************************)
(* Model of the ShortUID generator of src/src/short-uid.ts.                *)
(*                                                                         *)
(* A string is the sequence of its UTF-16 code units, so an ID is a        *)
(* sequence of integers and the dictionary is a sequence of code units     *)
(* (each entry of the source array is a one-character string).             *)
(*                                                                         *)
(* The counter is a JavaScript number, an IEEE-754 double.  Every value it *)
(* takes is an integer in 0 .. 2^53.  TLC's integers are 32 bits wide, so  *)
(* such a value v is kept as two limbs, v = hi * Limb + lo with            *)
(* 0 <= lo < Limb = 2^24 and 0 <= hi <= 2^29.                              *)
(***************************************************************************)
EXTENDS Integers, Sequences, FiniteSets, TLC

VARIABLES
  dict,        \* ShortUID.dict: the shared alphabet, built when the module loads
  dictLength,  \* ShortUID.dictLength: the length cached when the module loads
  counter,     \* counter[i]: this.counter of instance i
  debug,       \* debug[i]: this.debug of instance i
  console,     \* the global console: "full", "nolog" (an object with no log),
               \* "undefined" (the global holds undefined) or "undeclared" (no
               \* global of that name exists)
  emitted,     \* what the last operation wrote through console.log
  copies,      \* the arrays getDict() has handed out, as their holders see them
  ret,         \* the last completed call: operation, receiver, argument, outcome
  reads,       \* the indices at which the last call read ShortUID.dict
  issued,      \* history: issued[i] lists the counterUUID() calls on i since its
               \* construction or last reset, each as [at |-> counter, id |-> result]
  wasReset     \* history: wasReset[i] iff resetCounter() was ever called on i

vars == <<dict, dictLength, counter, debug, console, emitted, copies, ret,
          reads, issued, wasReset>>

----------------------------------------------------------------------------
(* Bounds of the model.                                                    *)

\* Spec: counterUUID() is called while the counter is below this.
MaxCounter == 3
\* SpecMulti: instances constructed, and counterUUID() called on each while its
\* counter is below MultiCounter.
MaxInstances == 2
MultiCounter == 2
\* SpecRange: counterUUID() calls made since the starting state or the last reset.
RangeCalls == 4
\* Explicit lengths passed to randomUUID are -1 .. MaxLen.
MaxLen == 2
\* SpecDict: arrays obtained from getDict(), and counterUUID() called on each
\* instance while its counter is below DictCounter.
MaxCopies == 2
DictCounter == 1
\* SpecLog: instances constructed, counterUUID() called on each while its counter
\* is below LogCounter, and arrays obtained from getDict().
LogInstances == 1
LogCounter == 1
LogCopies == 1
\* SpecEncode: the counter values the generator starts from are 0 .. EncodeMax
\* (enough to pass 62 + 62 * 62 IDs), and counterUUID() calls made from there.
EncodeMax == 3906
EncodeCalls == 2

----------------------------------------------------------------------------
(* JavaScript numbers holding integers in 0 .. 2^53.                       *)

Limb == 16777216
MaxHi == 536870912

Num(n) == [hi |-> 0, lo |-> n]
Zero == Num(0)
\* 2^53, the largest value the counter can take.
NumMax == [hi |-> MaxHi, lo |-> 0]

\* x + 1 over the integers.
NumSucc(x) ==
  IF x.lo + 1 = Limb THEN [hi |-> x.hi + 1, lo |-> 0]
                     ELSE [hi |-> x.hi, lo |-> x.lo + 1]

NumLess(x, y) == x.hi < y.hi \/ (x.hi = y.hi /\ x.lo < y.lo)

\* x % m for a double x holding an integer and 0 < m < 128: the remainder is exact.
NumMod(x, m) == (((x.hi % m) * Limb) + x.lo) % m

\* Math.floor(x / m).  For an integer x <= 2^53 and m = 62 the rounded quotient
\* x / m never reaches the next integer (its fraction is at most 61/62 and the
\* rounding error below 2^48 is at most 1/64), so the result is the exact floor.
NumDivFloor(x, m) ==
  [hi |-> x.hi \div m, lo |-> (((x.hi % m) * Limb) + x.lo) \div m]

\* Mutant: the increment is forgotten.
PostIncrement_Missing(x) == x

\* this.counter++ stores x + 1 rounded to the nearest double, ties to even:
\* 2^53 + 1 is not a double and rounds back to 2^53.
PostIncrement(x) == IF x = NumMax THEN NumMax ELSE NumSucc(x)

----------------------------------------------------------------------------
(* The dictionary.                                                         *)

DEFAULT_RANDOM_ID_LEN == 6

DICT_RANGES ==
  [digits |-> <<48, 58>>, lowerCase |-> <<97, 123>>, upperCase |-> <<65, 91>>]

\* String.fromCharCode(c): the string of the one code unit c.
FromCharCode(c) == <<c>>

\* Mutant: the loop runs while rangeIndex <= upperBound.
RangeChars_Inclusive(r) ==
  [k \in 1 .. (r[2] - r[1] + 1) |-> FromCharCode(r[1] + k - 1)[1]]

\* The characters pushed for one range: lowerBound .. upperBound - 1, in order.
RangeChars(r) == [k \in 1 .. (r[2] - r[1]) |-> FromCharCode(r[1] + k - 1)[1]]

\* The array before the shuffle: for..in visits digits, lowerCase, upperCase.
BuildDict ==
  RangeChars(DICT_RANGES.digits) \o RangeChars(DICT_RANGES.lowerCase)
    \o RangeChars(DICT_RANGES.upperCase)

\* dict.sort(() => Math.random() - 0.5) leaves some rearrangement of the array.
\* The rearrangements followed here: none, and a scrambling one.
Rearrange(d, p) == [k \in 1 .. Len(d) |-> d[p[k]]]
ShufflePerms ==
  LET n == Len(BuildDict) IN
  { [k \in 1 .. n |-> k],
    [k \in 1 .. n |-> ((k * 37) % n) + 1] }
ShuffleOutcomes == { Rearrange(BuildDict, p) : p \in ShufflePerms }

----------------------------------------------------------------------------
(* Calls and what they return.                                             *)

Instances == DOMAIN counter

\* An argument: tag "none" (the operation takes none), "omitted", "undefined",
\* "null", "num" (the number n), and for the constructor's options.debug
\* "true" and "false".
Arg(tag, n) == [tag |-> tag, n |-> n]
NoArg == Arg("none", 0)

\* The record of a completed call.  kind is "void", "string", "number", "array"
\* or "throw"; str, num, ref and err hold the outcome of that kind (ref is the
\* place in copies of the array returned).
Returned(op, i, arg, kind, str, num, ref, err) ==
  [op |-> op, inst |-> i, arg |-> arg, kind |-> kind,
   str |-> str, num |-> num, ref |-> ref, err |-> err]
RetVoid(op, i, arg) == Returned(op, i, arg, "void", <<>>, Zero, 0, "")
RetString(op, i, arg, s) == Returned(op, i, arg, "string", s, Zero, 0, "")
RetNumber(op, i, x) == Returned(op, i, NoArg, "number", <<>>, x, 0, "")
RetArray(op, i, r) == Returned(op, i, NoArg, "array", <<>>, Zero, r, "")
RetThrow(op, i, arg, msg) == Returned(op, i, arg, "throw", <<>>, Zero, 0, msg)

----------------------------------------------------------------------------
(* log                                                                     *)

LOG_PREFIX == "[frugal-id] "

\* Mutant: the message is written whatever this.debug is.
LogOutput_Always(dbg, message) ==
  LET prefixedMessage == LOG_PREFIX \o message IN
  IF console = "full" THEN <<prefixedMessage>> ELSE <<>>

\* What log(message) of an instance with this.debug = dbg writes:
\* console?.log?.(prefixedMessage) writes only when console and its log exist.
LogOutput(dbg, message) ==
  LET prefixedMessage == LOG_PREFIX \o message IN
  IF dbg /\ console = "full" THEN <<prefixedMessage>> ELSE <<>>

\* The optional chain guards against a console that is undefined or null and
\* against a missing log, not against a name that does not resolve: evaluating
\* the identifier console then throws a ReferenceError, which log lets through.
REFERENCE_ERROR == "console is not defined"
LogRaises(dbg) == dbg /\ console = "undeclared"

----------------------------------------------------------------------------
(* constructor                                                             *)

ConstructorArgs == { Arg("omitted", 0), Arg("true", 0), Arg("false", 0) }

\* options.debug || false
DebugOption(opt) == opt.tag = "true"

CreatedMessage == "Generator created with Dictionary Size " \o ToString(dictLength)

\* Mutant: the constructor builds the dictionary, so every new instance
\* rearranges the alphabet the others use.
Construct_Reshuffles(opt) ==
  LET i == Len(counter) + 1 IN
  /\ dict' \in ShuffleOutcomes \ {dict}
  /\ counter' = Append(counter, Zero)
  /\ debug' = Append(debug, DebugOption(opt))
  /\ emitted' = LogOutput(DebugOption(opt), CreatedMessage)
  /\ reads' = {}
  /\ issued' = Append(issued, <<>>)
  /\ wasReset' = Append(wasReset, FALSE)
  /\ ret' = RetVoid("construct", i, opt)
  /\ UNCHANGED <<dictLength, console, copies>>

\* new ShortUID(options).  When log throws, the constructor throws and its caller
\* gets no instance (the record of the call then names instance 0).
Construct(opt) ==
  LET i == Len(counter) + 1 IN
  IF LogRaises(DebugOption(opt))
    THEN /\ ret' = RetThrow("construct", 0, opt, REFERENCE_ERROR)
         /\ emitted' = <<>>
         /\ reads' = {}
         /\ UNCHANGED <<dict, dictLength, counter, debug, console, copies, issued,
                        wasReset>>
    ELSE /\ counter' = Append(counter, Zero)
         /\ debug' = Append(debug, DebugOption(opt))
         /\ emitted' = LogOutput(DebugOption(opt), CreatedMessage)
         /\ reads' = {}
         /\ issued' = Append(issued, <<>>)
         /\ wasReset' = Append(wasReset, FALSE)
         /\ ret' = RetVoid("construct", i, opt)
         /\ UNCHANGED <<dict, dictLength, console, copies>>

----------------------------------------------------------------------------
(* counterUUID                                                             *)

\* ShortUID.dict[idx] as it is appended to a string: the character at idx, and for
\* an idx outside the array the text of undefined.
UNDEFINED_TEXT == <<117, 110, 100, 101, 102, 105, 110, 101, 100>>
DictAt(idx) == IF idx \in 0 .. (Len(dict) - 1) THEN <<dict[idx + 1]>> ELSE UNDEFINED_TEXT

\* Mutant: the part is put in front, which writes the most significant digit first.
AppendPart_Prepend(id, counterRem) == DictAt(counterRem) \o id

\* id += ShortUID.dict[counterRem]
AppendPart(id, counterRem) == id \o DictAt(counterRem)

\* Mutant: while (counterDiv > 0), the test made before the first iteration.
RECURSIVE EncodeLoop_TestFirst(_, _)
EncodeLoop_TestFirst(id, counterDiv) ==
  IF counterDiv = Zero
    THEN id
    ELSE EncodeLoop_TestFirst(AppendPart(id, NumMod(counterDiv, dictLength)),
                              NumDivFloor(counterDiv, dictLength))

\* The while (true) loop: one digit of counterDiv per iteration, until the
\* quotient is 0.
RECURSIVE EncodeLoop(_, _)
EncodeLoop(id, counterDiv) ==
  LET counterRem == NumMod(counterDiv, dictLength)
      quotient == NumDivFloor(counterDiv, dictLength)
      next == AppendPart(id, counterRem)
  IN IF quotient = Zero THEN next ELSE EncodeLoop(next, quotient)

\* The indices the loop reads ShortUID.dict at: counterRem of every iteration.
RECURSIVE EncodeReads(_)
EncodeReads(counterDiv) ==
  LET counterRem == NumMod(counterDiv, dictLength)
      quotient == NumDivFloor(counterDiv, dictLength)
  IN {counterRem} \cup (IF quotient = Zero THEN {} ELSE EncodeReads(quotient))

\* Mutant: the counter is kept once for the class, so the call advances every
\* instance.
CounterUUID_Shared(i) ==
  LET id == EncodeLoop(<<>>, counter[i]) IN
  /\ counter' = [j \in DOMAIN counter |-> PostIncrement(counter[j])]
  /\ ret' = RetString("counterUUID", i, NoArg, id)
  /\ issued' = [issued EXCEPT ![i] = Append(@, [at |-> counter[i], id |-> id])]
  /\ emitted' = <<>>
  /\ reads' = EncodeReads(counter[i])
  /\ UNCHANGED <<dict, dictLength, debug, console, copies, wasReset>>

CounterUUID(i) ==
  LET id == EncodeLoop(<<>>, counter[i]) IN
  /\ counter' = [counter EXCEPT ![i] = PostIncrement(counter[i])]
  /\ ret' = RetString("counterUUID", i, NoArg, id)
  /\ issued' = [issued EXCEPT ![i] = Append(@, [at |-> counter[i], id |-> id])]
  /\ emitted' = <<>>
  /\ reads' = EncodeReads(counter[i])
  /\ UNCHANGED <<dict, dictLength, debug, console, copies, wasReset>>

----------------------------------------------------------------------------
(* randomUUID                                                              *)

INVALID_LENGTH == "Invalid UUID Length Provided"

\* Math.random() returns a double in [0, 1): the value r / RandScale here.
RandScale == 1000
RandomValues == {0, 999}

RandomArgs ==
  { Arg("omitted", 0), Arg("undefined", 0), Arg("null", 0) }
    \cup { Arg("num", n) : n \in -1 .. MaxLen }

\* Mutant: the default replaces a missing argument only, so an explicit undefined
\* reaches the validation.
UuidLength_OnlyOmitted(arg) ==
  IF arg.tag = "omitted" THEN Arg("num", DEFAULT_RANDOM_ID_LEN) ELSE arg

\* uuidLength: number = ShortUID.DEFAULT_RANDOM_ID_LEN: the default replaces a
\* missing argument and an argument that is undefined, and nothing else.
UuidLength(arg) ==
  IF arg.tag \in {"omitted", "undefined"} THEN Arg("num", DEFAULT_RANDOM_ID_LEN)
                                          ELSE arg

\* Mutant: uuidLength == null || uuidLength < 0.
InvalidLength_Negative(uuidLength) ==
  uuidLength.tag \in {"null", "undefined"} \/ uuidLength.n < 0

\* uuidLength == null || uuidLength < 1
InvalidLength(uuidLength) ==
  uuidLength.tag \in {"null", "undefined"} \/ uuidLength.n < 1

\* Mutant: Math.ceil(Math.random() * ShortUID.dictLength), with no remainder taken.
RandomPartIdx_Ceil(r) == ((r * dictLength) + RandScale - 1) \div RandScale

\* Math.floor(Math.random() * ShortUID.dictLength) % ShortUID.dictLength
RandomPartIdx(r) == ((r * dictLength) \div RandScale) % dictLength

\* The for loop: one random part for each idIndex in 0 .. uuidLength - 1.
RECURSIVE RandomLoop(_, _, _, _)
RECURSIVE RandomLoop_Inclusive(_, _, _, _)
RECURSIVE RandomLoop_Overwrite(_, _, _, _)

\* Mutant: id = ShortUID.dict[randomPartIdx], which keeps the last part only.
RandomLoop_Overwrite(id, idIndex, n, draws) ==
  IF idIndex < n
    THEN RandomLoop_Overwrite(DictAt(RandomPartIdx(draws[idIndex + 1])),
                              idIndex + 1, n, draws)
    ELSE id

\* Mutant: the loop runs while idIndex <= uuidLength, repeating the last draw.
RandomLoop_Inclusive(id, idIndex, n, draws) ==
  IF idIndex <= n
    THEN RandomLoop_Inclusive(
           id \o DictAt(RandomPartIdx(draws[IF idIndex < n THEN idIndex + 1 ELSE n])),
           idIndex + 1, n, draws)
    ELSE id

RandomLoop(id, idIndex, n, draws) ==
  IF idIndex < n
    THEN RandomLoop(id \o DictAt(RandomPartIdx(draws[idIndex + 1])),
                    idIndex + 1, n, draws)
    ELSE id

\* Mutant: a successful call also advances the counter.
RandomUUID_Counts(i, arg) ==
  LET uuidLength == UuidLength(arg) IN
  /\ \/ /\ InvalidLength(uuidLength)
        /\ ret' = RetThrow("randomUUID", i, arg, INVALID_LENGTH)
        /\ reads' = {}
        /\ counter' = counter
     \/ /\ ~InvalidLength(uuidLength)
        /\ \E draws \in [1 .. uuidLength.n -> RandomValues] :
             /\ ret' = RetString("randomUUID", i, arg,
                                 RandomLoop(<<>>, 0, uuidLength.n, draws))
             /\ reads' = { RandomPartIdx(draws[k]) : k \in 1 .. uuidLength.n }
        /\ counter' = [counter EXCEPT ![i] = PostIncrement(counter[i])]
  /\ emitted' = <<>>
  /\ UNCHANGED <<dict, dictLength, debug, console, copies, issued, wasReset>>

RandomUUID(i, arg) ==
  LET uuidLength == UuidLength(arg) IN
  /\ \/ /\ InvalidLength(uuidLength)
        /\ ret' = RetThrow("randomUUID", i, arg, INVALID_LENGTH)
        /\ reads' = {}
     \/ /\ ~InvalidLength(uuidLength)
        /\ \E draws \in [1 .. uuidLength.n -> RandomValues] :
             /\ ret' = RetString("randomUUID", i, arg,
                                 RandomLoop(<<>>, 0, uuidLength.n, draws))
             /\ reads' = { RandomPartIdx(draws[k]) : k \in 1 .. uuidLength.n }
  /\ emitted' = <<>>
  /\ UNCHANGED <<dict, dictLength, counter, debug, console, copies, issued,
                 wasReset>>

----------------------------------------------------------------------------
(* resetCounter, getCounter, getDictLength, getDict                        *)

\* Mutant: this.counter = 1.
ResetCounter_ToOne(i) ==
  /\ counter' = [counter EXCEPT ![i] = Num(1)]
  /\ emitted' = LogOutput(debug[i], "Counter reset to 0")
  /\ reads' = {}
  /\ ret' = IF LogRaises(debug[i])
              THEN RetThrow("resetCounter", i, NoArg, REFERENCE_ERROR)
              ELSE RetVoid("resetCounter", i, NoArg)
  /\ issued' = [issued EXCEPT ![i] = <<>>]
  /\ wasReset' = [wasReset EXCEPT ![i] = TRUE]
  /\ UNCHANGED <<dict, dictLength, debug, console, copies>>

\* this.counter = 0, then log: when log throws, the counter is already 0.
ResetCounter(i) ==
  /\ counter' = [counter EXCEPT ![i] = Zero]
  /\ emitted' = LogOutput(debug[i], "Counter reset to 0")
  /\ reads' = {}
  /\ ret' = IF LogRaises(debug[i])
              THEN RetThrow("resetCounter", i, NoArg, REFERENCE_ERROR)
              ELSE RetVoid("resetCounter", i, NoArg)
  /\ issued' = [issued EXCEPT ![i] = <<>>]
  /\ wasReset' = [wasReset EXCEPT ![i] = TRUE]
  /\ UNCHANGED <<dict, dictLength, debug, console, copies>>

\* Mutant: return this.counter++.
GetCounter_Bumps(i) ==
  /\ ret' = RetNumber("getCounter", i, counter[i])
  /\ counter' = [counter EXCEPT ![i] = PostIncrement(counter[i])]
  /\ emitted' = <<>>
  /\ reads' = {}
  /\ UNCHANGED <<dict, dictLength, debug, console, copies, issued, wasReset>>

GetCounter(i) ==
  /\ ret' = RetNumber("getCounter", i, counter[i])
  /\ emitted' = <<>>
  /\ reads' = {}
  /\ UNCHANGED <<dict, dictLength, counter, debug, console, copies, issued,
                 wasReset>>

GetDictLength(i) ==
  /\ ret' = RetNumber("getDictLength", i, Num(dictLength))
  /\ emitted' = <<>>
  /\ reads' = {}
  /\ UNCHANGED <<dict, dictLength, counter, debug, console, copies, issued,
                 wasReset>>

\* [...ShortUID.dict]: a new array with the elements of dict, in order.
SpreadDict == [k \in 1 .. Len(dict) |-> dict[k]]

\* Mutant: return ShortUID.dict, the shared array itself.
GetDict_Alias(i) ==
  /\ ret' = RetArray("getDict", i, 0)
  /\ emitted' = <<>>
  /\ reads' = {}
  /\ UNCHANGED <<dict, dictLength, counter, debug, console, copies, issued,
                 wasReset>>

\* getDict() returns a new array, which its caller holds from then on: the one at
\* place ret.ref of copies (place 0 would be ShortUID.dict itself).
GetDict(i) ==
  /\ copies' = Append(copies, SpreadDict)
  /\ ret' = RetArray("getDict", i, Len(copies) + 1)
  /\ emitted' = <<>>
  /\ reads' = {}
  /\ UNCHANGED <<dict, dictLength, counter, debug, console, issued, wasReset>>

\* The caller of getDict() assigns element idx of the array it was returned.
WriteReturned(idx, c) ==
  /\ ret.op = "getDict"
  /\ IF ret.ref = 0
       THEN /\ dict' = [dict EXCEPT ![idx + 1] = c]
            /\ copies' = copies
       ELSE /\ copies' = [copies EXCEPT ![ret.ref] = [@ EXCEPT ![idx + 1] = c]]
            /\ dict' = dict
  /\ UNCHANGED <<dictLength, counter, debug, console, emitted, ret, reads, issued,
                 wasReset>>

----------------------------------------------------------------------------
(* Specifications.                                                         *)

\* The module has been loaded: the dictionary is built and shuffled, its length
\* cached, and no generator exists yet.
Loaded ==
  /\ dict \in ShuffleOutcomes
  /\ dictLength = Len(dict)
  /\ console = "full"
  /\ copies = <<>>

\* Spec: one generator, from the state its constructor leaves, generating IDs and
\* managing its counter; counterUUID() until the counter reaches MaxCounter.
Init ==
  /\ Loaded
  /\ \E opt \in ConstructorArgs :
       /\ counter = <<Zero>>
       /\ debug = <<DebugOption(opt)>>
       /\ emitted = LogOutput(DebugOption(opt), CreatedMessage)
       /\ ret = RetVoid("construct", 1, opt)
  /\ reads = {}
  /\ issued = <<<<>>>>
  /\ wasReset = <<FALSE>>

Next ==
  \/ \E i \in Instances : NumLess(counter[i], Num(MaxCounter)) /\ CounterUUID(i)
  \/ \E i \in Instances : \E arg \in RandomArgs : RandomUUID(i, arg)
  \/ \E i \in Instances : ResetCounter(i)
  \/ \E i \in Instances : GetCounter(i)
  \/ \E i \in Instances : GetDictLength(i)

Spec == Init /\ [][Next]_vars

\* SpecDict: generators, the first in the state its constructor leaves, handing
\* out the dictionary to callers that write into what they get (an exclamation
\* mark at the first place), and generating IDs.
NextDict ==
  \/ Len(counter) < MaxInstances /\ \E opt \in ConstructorArgs : Construct(opt)
  \/ \E i \in Instances : Len(copies) < MaxCopies /\ GetDict(i)
  \/ WriteReturned(0, 33)
  \/ \E i \in Instances : GetDictLength(i)
  \/ \E i \in Instances : NumLess(counter[i], Num(DictCounter)) /\ CounterUUID(i)
  \/ \E i \in Instances : \E arg \in {Arg("num", 1)} : RandomUUID(i, arg)

SpecDict == Init /\ [][NextDict]_vars

\* SpecRange: one generator constructed with default options, at a counter value
\* that earlier counterUUID() calls have brought it to: just constructed, about
\* to need a second character, about to need a third, and two below 2^53 (the
\* counter reaches s after s calls).  The last call was the constructor for the
\* first and a getCounter() for the others.
StartCounters ==
  { Zero, Num(60), Num(3842), [hi |-> MaxHi - 1, lo |-> Limb - 2] }

InitRange ==
  /\ Loaded
  /\ \E s \in StartCounters :
       /\ counter = <<s>>
       /\ ret = IF s = Zero THEN RetVoid("construct", 1, Arg("omitted", 0))
                           ELSE RetNumber("getCounter", 1, s)
  /\ debug = <<FALSE>>
  /\ emitted = <<>>
  /\ reads = {}
  /\ issued = <<<<>>>>
  /\ wasReset = <<FALSE>>

NextRange ==
  \/ \E i \in Instances : Len(issued[i]) < RangeCalls /\ CounterUUID(i)
  \/ \E i \in Instances : \E arg \in RandomArgs : RandomUUID(i, arg)
  \/ \E i \in Instances : ResetCounter(i)
  \/ \E i \in Instances : GetCounter(i)

SpecRange == InitRange /\ [][NextRange]_vars

\* SpecMulti: from the loaded module, generators are constructed and used side by
\* side, and the environment replaces or removes the console.
InitMulti ==
  /\ Loaded
  /\ counter = <<>>
  /\ debug = <<>>
  /\ emitted = <<>>
  /\ ret = RetVoid("load", 0, NoArg)
  /\ reads = {}
  /\ issued = <<>>
  /\ wasReset = <<>>

\* The environment assigns, replaces or deletes the global console.
ConsoleStates == {"full", "nolog", "undefined", "undeclared"}

SetConsole(c) ==
  /\ console' = c
  /\ UNCHANGED <<dict, dictLength, counter, debug, emitted, copies, ret, reads,
                 issued, wasReset>>

NextMulti ==
  \/ Len(counter) < MaxInstances /\ \E opt \in ConstructorArgs : Construct(opt)
  \/ \E c \in ConsoleStates : SetConsole(c)
  \/ \E i \in Instances : NumLess(counter[i], Num(MultiCounter)) /\ CounterUUID(i)
  \/ \E i \in Instances : ResetCounter(i)
  \/ \E i \in Instances : GetCounter(i)

SpecMulti == InitMulti /\ [][NextMulti]_vars

\* SpecLog: as SpecMulti, with every operation of the interface: generators
\* constructed with and without debug, all their operations called, and the
\* environment changing the console between calls.
NextLog ==
  \/ Len(counter) < LogInstances /\ \E opt \in ConstructorArgs : Construct(opt)
  \/ \E c \in ConsoleStates : SetConsole(c)
  \/ \E i \in Instances : NumLess(counter[i], Num(LogCounter)) /\ CounterUUID(i)
  \/ \E i \in Instances : \E arg \in {Arg("num", 1), Arg("null", 0)} : RandomUUID(i, arg)
  \/ \E i \in Instances : ResetCounter(i)
  \/ \E i \in Instances : GetCounter(i)
  \/ \E i \in Instances : Len(copies) < LogCopies /\ GetDict(i)
  \/ \E i \in Instances : GetDictLength(i)

SpecLog == InitMulti /\ [][NextLog]_vars

\* SpecEncode: one generator constructed with default options, at any counter
\* value s in 0 .. EncodeMax that s earlier counterUUID() calls have brought it
\* to, issues counter IDs, its counter being read in between.
InitEncode ==
  /\ Loaded
  /\ \E s \in 0 .. EncodeMax :
       /\ counter = <<Num(s)>>
       /\ ret = IF s = 0 THEN RetVoid("construct", 1, Arg("omitted", 0))
                         ELSE RetNumber("getCounter", 1, Num(s))
  /\ debug = <<FALSE>>
  /\ emitted = <<>>
  /\ reads = {}
  /\ issued = <<<<>>>>
  /\ wasReset = <<FALSE>>

NextEncode ==
  \/ \E i \in Instances : Len(issued[i]) < EncodeCalls /\ CounterUUID(i)
  \/ \E i \in Instances : GetCounter(i)

SpecEncode == InitEncode /\ [][NextEncode]_vars

----------------------------------------------------------------------------
(* Properties.                                                             *)

\* The calls of issued[i], in order.
Calls(i) == 1 .. Len(issued[i])

\* C1, as the source states it: on an instance never reset, no two counterUUID()
\* calls return the same ID, however many calls are made.
C1_AllIdsDistinct ==
  \A i \in Instances : ~wasReset[i] =>
    \A j, k \in Calls(i) : j < k => issued[i][j].id # issued[i][k].id

\* C1 below 2^53: on an instance never reset, the ID returned by a counterUUID()
\* call that found the counter below 2^53 is returned by no later call (so the
\* first 2^53 + 1 calls return pairwise distinct IDs).
C1_IdsDistinctBelowMax ==
  \A i \in Instances : ~wasReset[i] =>
    \A j, k \in Calls(i) :
      (j < k /\ issued[i][j].at # NumMax) => issued[i][j].id # issued[i][k].id

\* Four calls on an instance never reset, returning IDs of one and of two characters.
C1_Witness ==
  \E i \in Instances :
    /\ ~wasReset[i]
    /\ Len(issued[i]) >= 4
    /\ Len(issued[i][1].id) = 1
    /\ Len(issued[i][4].id) = 2

\* The counter value one call leaves, given the value it found: one more, and
\* 2^53 where it found 2^53.
StepUp(x) == IF NumLess(x, NumMax) THEN NumSucc(x) ELSE x

\* The counter is 0 after construction, and getCounter() returns the counter.
CounterObserved ==
  /\ ret.op = "construct" => counter[ret.inst] = Zero
  /\ ret.op = "getCounter" => ret.num = counter[ret.inst]

\* C2, as the source states it: the counter is 0 after construction, every
\* counterUUID() call increases it by exactly 1, and getCounter() returns it
\* without changing it.
C2_EveryCallAddsOne ==
  /\ CounterObserved
  /\ \A i \in Instances :
       /\ \A k \in Calls(i) : k > 1 => issued[i][k].at = NumSucc(issued[i][k - 1].at)
       /\ Len(issued[i]) > 0 => counter[i] = NumSucc(issued[i][Len(issued[i])].at)

\* C2 below 2^53: the counter is 0 after construction; a counterUUID() call that
\* finds it below 2^53 increases it by exactly 1 and one that finds it at 2^53
\* leaves it there; no other call but resetCounter() changes it; getCounter()
\* returns it, so that on a fresh instance getCounter() is N after N calls.
C2_CounterCounts ==
  /\ CounterObserved
  /\ \A i \in Instances :
       /\ \A k \in Calls(i) : k > 1 => issued[i][k].at = StepUp(issued[i][k - 1].at)
       /\ Len(issued[i]) > 0 => counter[i] = StepUp(issued[i][Len(issued[i])].at)
       /\ (Len(issued[i]) > 0 /\ issued[i][1].at = Zero) =>
            /\ counter[i] = Num(Len(issued[i]))
            /\ (ret.op = "getCounter" /\ ret.inst = i) => ret.num = Num(Len(issued[i]))

\* getCounter() has returned 3 on a fresh instance after 3 counterUUID() calls.
C2_Witness ==
  /\ ret.op = "getCounter"
  /\ ~wasReset[ret.inst]
  /\ Len(issued[ret.inst]) = 3
  /\ issued[ret.inst][1].at = Zero
  /\ ret.num = Num(3)

\* floor(v / base^k), by k divisions.
RECURSIVE NumDivPow(_, _)
NumDivPow(v, k) == IF k = 0 THEN v ELSE NumDivPow(NumDivFloor(v, dictLength), k - 1)

\* floor(v / base^k): below 2^24 in one division, above it by k divisions.
QuotientByPower(v, k) ==
  IF v.hi = 0 THEN Num(v.lo \div (dictLength ^ k)) ELSE NumDivPow(v, k)

\* The id is the base-dictLength digits of v, least significant first.
IsDigitsOf(id, v) ==
  /\ Len(id) >= 1
  /\ \A p \in 1 .. Len(id) :
       id[p] = dict[NumMod(QuotientByPower(v, p - 1), dictLength) + 1]
  /\ QuotientByPower(v, Len(id)) = Zero
  /\ Len(id) > 1 => QuotientByPower(v, Len(id) - 1) # Zero

\* C3: counterUUID() returns the base-dictLength digits of the counter value it
\* found, least significant digit first: character i is
\* alphabet[floor(v / base^i) mod base]; 0 gives a0, 1 gives a1, 62 gives a0 a1
\* and 63 gives a1 a1.
C3_LeastSignificantFirst ==
  \A i \in Instances : \A k \in Calls(i) :
    LET v == issued[i][k].at
        id == issued[i][k].id
    IN /\ IsDigitsOf(id, v)
       /\ v = Num(0) => id = <<dict[1]>>
       /\ v = Num(1) => id = <<dict[2]>>
       /\ v = Num(62) => id = <<dict[1], dict[2]>>
       /\ v = Num(63) => id = <<dict[2], dict[2]>>

\* The calls at 62 and at 63 have been made, and returned a0 a1 and a1 a1.
C3_Witness ==
  \E i \in Instances : \E k \in Calls(i) :
    /\ k > 1
    /\ issued[i][k - 1].at = Num(62) /\ issued[i][k - 1].id = <<dict[1], dict[2]>>
    /\ issued[i][k].at = Num(63) /\ issued[i][k].id = <<dict[2], dict[2]>>

\* The ID the next counterUUID() call on i returns.
NextCounterId(i) == EncodeLoop(<<>>, counter[i])

\* After a reset the k-th counterUUID() call returns what the k-th call on a
\* fresh instance returns, and the first returns alphabet[0].
RestartedLikeFresh ==
  \A i \in Instances : wasReset[i] =>
    /\ Len(issued[i]) >= 1 => issued[i][1].id = <<dict[1]>>
    /\ \A j \in Instances : ~wasReset[j] =>
         \A k \in Calls(i) \cap Calls(j) : issued[i][k].id = issued[j][k].id

\* A resetCounter() call leaves the counter at 0, and the next counterUUID()
\* call returns again the first ID the instance had issued.
ResetStep ==
  \A i \in Instances : (ret'.op = "resetCounter" /\ ret'.inst = i) =>
    /\ counter'[i] = Zero
    /\ Len(issued[i]) >= 1 => NextCounterId(i)' = issued[i][1].id

\* C4: resetCounter() sets the counter to 0 from any state, and afterwards the
\* k-th counterUUID() call returns what the k-th call on a fresh instance
\* returns; the first call after a reset returns alphabet[0], so IDs issued
\* before are issued again.
C4_ResetRestarts == []RestartedLikeFresh /\ [][ResetStep]_vars

\* An instance that was reset and a fresh one have both made two calls since.
C4_Witness ==
  \E i, j \in Instances :
    /\ wasReset[i] /\ ~wasReset[j]
    /\ Len(issued[i]) >= 2 /\ Len(issued[j]) >= 2

\* The argument of the last call is a number below 1, or null.
NullOrBelowOne(arg) == arg.tag = "null" \/ (arg.tag = "num" /\ arg.n < 1)

C6_InvalidLengthThrows ==
  [][ (ret'.op = "randomUUID" /\ NullOrBelowOne(ret'.arg)) =>
        /\ ret'.kind = "throw"
        /\ ret'.err = "Invalid UUID Length Provided"
        /\ ret'.str = <<>>
        /\ counter' = counter
        /\ dict' = dict ]_vars

\* randomUUID(null) has thrown on an instance whose counter had been advanced.
C6_Witness ==
  /\ ret.op = "randomUUID"
  /\ ret.arg.tag = "null"
  /\ ret.kind = "throw"
  /\ counter[ret.inst] = Num(2)

DictMembers == { SpreadDict[k] : k \in DOMAIN SpreadDict }

\* C8: every character of every string randomUUID and counterUUID() return is a
\* member of the array getDict() returns, and the alphabet is read at no index
\* outside it.
C8_CharsFromDict ==
  /\ ret.kind = "string" => \A p \in DOMAIN ret.str : ret.str[p] \in DictMembers
  /\ reads \subseteq 0 .. (Len(SpreadDict) - 1)
  /\ \A i \in Instances : \A k \in Calls(i) :
       \A p \in DOMAIN issued[i][k].id : issued[i][k].id[p] \in DictMembers

\* randomUUID() has returned six characters on an instance that has issued a
\* counter ID of three characters.
C8_Witness ==
  /\ ret.op = "randomUUID"
  /\ Len(ret.str) = 6
  /\ reads = {0, 61}
  /\ \E k \in Calls(ret.inst) : Len(issued[ret.inst][k].id) = 3

\* C9: a randomUUID call, successful or failing, leaves every counter as it was,
\* and with it what getCounter() and the next counterUUID() return.
C9_RandomLeavesCounter ==
  [][ ret'.op = "randomUUID" =>
        /\ counter' = counter
        /\ \A i \in Instances : NextCounterId(i)' = NextCounterId(i) ]_vars

\* randomUUID() has returned an ID on an instance whose counter had been advanced.
C9_Witness ==
  /\ ret.op = "randomUUID"
  /\ ret.kind = "string"
  /\ counter[ret.inst] = Num(2)
  /\ Len(issued[ret.inst]) = 2

\* C10: a counterUUID() or resetCounter() call on one instance, and the
\* construction of a new instance, leave the counter of every other instance,
\* which is what its getCounter() returns, as it was.
C10_IndependentCounters ==
  [][ /\ \A j \in Instances :
           (ret'.op \in {"counterUUID", "resetCounter", "construct"} /\ ret'.inst # j)
             => counter'[j] = counter[j]
      /\ ret'.op = "getCounter" => ret'.num = counter[ret'.inst] ]_vars

\* counterUUID() on the first instance has brought it to 2 while the second has
\* made one call since its reset.
C10_Witness ==
  /\ Len(counter) = 2
  /\ ret.op = "counterUUID" /\ ret.inst = 1
  /\ counter[1] = Num(2)
  /\ counter[2] = Num(1)
  /\ wasReset[2]

\* The 62 characters 0-9, a-z, A-Z, as code units.
AlphaNumerics == (48 .. 57) \cup (97 .. 122) \cup (65 .. 90)

\* C11: in every reachable state the alphabet is a permutation of exactly the 62
\* characters 0-9, a-z, A-Z, with no duplicates; getDictLength() returns 62, the
\* length of every array getDict() returns.
C11_AlphabetIs62 ==
  /\ Len(dict) = 62
  /\ { dict[k] : k \in DOMAIN dict } = AlphaNumerics
  /\ \A j, k \in DOMAIN dict : j # k => dict[j] # dict[k]
  /\ ret.op = "getDictLength" =>
       /\ ret.num = Num(62)
       /\ \A c \in DOMAIN copies : Len(copies[c]) = ret.num.lo
  /\ (ret.op = "getDict" /\ ret.ref \in DOMAIN copies) => Len(copies[ret.ref]) = 62

\* getDictLength() has returned 62 after getDict() returned two arrays, with the
\* alphabet in another order than it was built in.
C11_Witness ==
  /\ ret.op = "getDictLength"
  /\ ret.num = Num(62)
  /\ Len(copies) = 2
  /\ dict # BuildDict

\* Every array handed out holds what the first one held when it was returned,
\* which is the alphabet, but for the places its holder has written since.
CopiesAgree ==
  \A c \in DOMAIN copies :
    /\ Len(copies[c]) = Len(dict)
    /\ \A k \in DOMAIN dict : copies[c][k] # dict[k] => (k = 1 /\ copies[c][k] = 33)

\* A step leaves the alphabet as it is; if it is a getDict() call, the array it
\* returns is a new one, none of those handed out before and not the alphabet
\* itself, holding the alphabet in order, and the arrays handed out before stay
\* as their holders left them; if it is a counterUUID() call, the ID is made of
\* the characters the alphabet had when the module was loaded.
AlphabetStep ==
  /\ dict' = dict
  /\ dictLength' = dictLength
  /\ ret'.op = "getDict" =>
       /\ ret'.ref \in DOMAIN copies'
       /\ (ret' # ret => ret'.ref \notin DOMAIN copies)
       /\ \A c \in DOMAIN copies : copies'[c] = copies[c] \/ c = ret.ref
       /\ (ret' # ret => copies'[ret'.ref] = dict)
  /\ (ret'.op = "counterUUID" /\ counter' # counter) =>
       ret'.str[1] = dict[NumMod(counter[ret'.inst], 62) + 1]

\* C12: the shared alphabet is built once and never changes: whatever is done on
\* whatever instances, constructing further ones and writing into arrays that
\* getDict() returned included, every getDict() call returns a distinct array
\* with the content and order the first call returned, and generation keeps
\* using that alphabet.
C12_AlphabetNeverChanges == []CopiesAgree /\ [][AlphabetStep]_vars

\* After a second instance was constructed and the first array returned was
\* written into, getDict() has returned a second array, which holds the alphabet.
C12_Witness ==
  /\ Len(counter) = 2
  /\ Len(copies) = 2
  /\ copies[1][1] = 33
  /\ ret.op = "getDict" /\ ret.ref = 2
  /\ copies[2] = dict

\* C13: logging never raises and never alters results: whatever the console is
\* (present, without log, undefined, or not there at all) and whatever the debug
\* flag, construction yields an instance whose counter is 0, resetCounter()
\* returns normally, counterUUID() returns a string, and randomUUID throws for
\* an invalid length only.
C13_LoggingNeverRaises ==
  /\ ret.op = "construct" =>
       (ret.kind = "void" /\ ret.inst \in Instances /\ counter[ret.inst] = Zero)
  /\ ret.op = "resetCounter" => (ret.kind = "void" /\ counter[ret.inst] = Zero)
  /\ ret.op = "counterUUID" => ret.kind = "string"
  /\ ret.op = "randomUUID" => (ret.kind = "throw" <=> NullOrBelowOne(ret.arg))

\* C13 with a console that is declared: a constructor or resetCounter() call
\* throws only on a debug instance while no global console exists; with the
\* console present, without log, or undefined, and on every instance without
\* debug, the calls return normally, and resetCounter() leaves the counter at 0
\* in every case.
C13_DeclaredConsoleNeverRaises ==
  [][ /\ (ret' # ret /\ ret'.op = "construct") =>
           /\ ret'.kind = "throw" <=> (console = "undeclared" /\ ret'.arg.tag = "true")
           /\ ret'.kind = "void" =>
                (Len(counter') = Len(counter) + 1 /\ counter'[ret'.inst] = Zero)
      /\ (ret' # ret /\ ret'.op = "resetCounter") =>
           /\ ret'.kind = "throw" <=> (console = "undeclared" /\ debug[ret'.inst])
           /\ counter'[ret'.inst] = Zero ]_vars

\* The constructor of a debug instance has thrown.
C13_Witness ==
  /\ ret.op = "construct"
  /\ ret.kind = "throw"
  /\ ret.arg.tag = "true"

\* The debug flag a call logs under: the option given to the constructor, and
\* for resetCounter() the flag of the instance.
LogFlag ==
  IF ret'.op = "construct" THEN ret'.arg.tag = "true" ELSE debug[ret'.inst]

\* What the operations that log are to write, prefix included.
ExpectedMessage(op) ==
  IF op = "construct" THEN "[frugal-id] Generator created with Dictionary Size 62"
                      ELSE "[frugal-id] Counter reset to 0"

\* A step leaves the debug flag of every instance as its constructor set it, and
\* a constructor sets it to the option it was given.  A call (a step that is
\* not the environment changing the console) of the constructor or
\* resetCounter() writes exactly one message, with the prefix, when the flag is
\* enabled and console.log exists, and none when the flag is disabled; a call of
\* any other operation writes none.
LogStep ==
  /\ \A i \in DOMAIN debug : debug'[i] = debug[i]
  /\ (ret'.op = "construct" /\ Len(debug') > Len(debug)) =>
       debug'[ret'.inst] = (ret'.arg.tag = "true")
  /\ console' = console =>
       IF ret'.op \in {"construct", "resetCounter"}
         THEN /\ (LogFlag /\ console = "full") => emitted' = <<ExpectedMessage(ret'.op)>>
              /\ ~LogFlag => emitted' = <<>>
         ELSE emitted' = <<>>

\* C17: the debug flag is fixed at construction and no operation changes it; a
\* message with the prefix '[frugal-id]' is emitted exactly once per construction
\* and once per resetCounter() when the flag is enabled and a logging capability
\* exists, and none when the flag is disabled or by counterUUID(), randomUUID(),
\* getCounter(), getDict() or getDictLength().
C17_LogsOncePerEvent == [][LogStep]_vars

\* resetCounter() on a debug instance that had issued an ID has written its
\* message.
C17_Witness ==
  /\ ret.op = "resetCounter"
  /\ debug[ret.inst]
  /\ wasReset[ret.inst]
  /\ Len(copies) = 1
  /\ emitted = <<"[frugal-id] Counter reset to 0">>

\* M + M^2 + ... + M^n
RECURSIVE SumOfPowers(_, _)
SumOfPowers(m, n) == IF n = 0 THEN 0 ELSE (m ^ n) + SumOfPowers(m, n - 1)

\* The strings over the alphabet of length 1 .. 2.
StringsUpToTwo ==
  { <<a>> : a \in DictMembers } \cup { <<a, b>> : a, b \in DictMembers }

\* The IDs of the counter values below n: what the n counterUUID() calls that
\* bring a new instance's counter to n have returned.
IdsBelow(n) == { EncodeLoop(<<>>, Num(v)) : v \in 0 .. (n - 1) }

\* The instance has just issued the ID that brings its counter to n.
JustReached(i, n) ==
  /\ ret.op = "counterUUID" /\ ret.inst = i
  /\ counter[i] = Num(n)
  /\ ret.str \in IdsBelow(n)

\* C14: the counter encoding is a bijection between the non-negative integers
\* and the non-empty strings over the alphabet: the IDs of length at most n
\* number M + M^2 + ... + M^n, every string of length at most n being the ID of
\* some counter value.  For n = 2: when the counter has reached M + M^2 = 3906,
\* every string of one or two characters has been issued, and the IDs of at most
\* two characters issued number 3906.
C14_EveryStringProduced ==
  \A i \in Instances : JustReached(i, SumOfPowers(dictLength, 2)) =>
    /\ StringsUpToTwo \subseteq IdsBelow(counter[i].lo)
    /\ Cardinality({ id \in IdsBelow(counter[i].lo) : Len(id) <= 2 })
         = SumOfPowers(62, 2)

\* What the code does: when the counter has reached M + M^2, the IDs of at most
\* two characters issued are the M^2 IDs of the counter values below M^2, and
\* the strings of two characters never issued are those that end in alphabet[0],
\* the digit 0 in the most significant place.
C14_PositionalCount ==
  \A i \in Instances : JustReached(i, SumOfPowers(dictLength, 2)) =>
    /\ { id \in IdsBelow(counter[i].lo) : Len(id) <= 2 } = IdsBelow(62 ^ 2)
    /\ Cardinality(IdsBelow(62 ^ 2)) = 62 ^ 2
    /\ StringsUpToTwo \ IdsBelow(counter[i].lo) = { <<a, dict[1]>> : a \in DictMembers }

\* randomUUID was called with the default length and returned an ID.
DefaultRandom(r) ==
  r.op = "randomUUID" /\ r.kind = "string" /\ r.arg.tag \in {"omitted", "undefined"}

DrawsDecide ==
  DefaultRandom(ret') =>
    /\ Len(ret'.str) = 6
    /\ { ret'.str[p] : p \in DOMAIN ret'.str } = { dict[k + 1] : k \in reads' }
    /\ (DefaultRandom(ret) /\ ret'.inst = ret.inst /\ reads' # reads)
         => ret'.str # ret.str

NumTimes(x, m) ==
  LET p == x.lo * m IN [hi |-> (x.hi * m) + (p \div Limb), lo |-> p % Limb]

\* 62^k, for k in 0 .. 9.
RECURSIVE PowerOf62(_)
PowerOf62(k) == IF k = 0 THEN Num(1) ELSE NumTimes(PowerOf62(k - 1), 62)

\* The number of base-62 digits of v <= 2^53: the least n >= 1 with v < 62^n.
DigitCount(v) == CHOOSE n \in 1 .. 9 :
  /\ NumLess(v, PowerOf62(n))
  /\ n > 1 => ~NumLess(v, PowerOf62(n - 1))

\* C16: the encoding loop of counterUUID() ends for every counter value, after
\* at least one iteration, and the ID has exactly as many characters as the
\* counter value has base-62 digits (1 for 0 .. 61, 2 for 62 .. 3843, 3 from
\* 3844 on, 9 at 2^53), so that of two calls the one that found the larger
\* counter value returned the ID that is no shorter.
C16_LengthIsDigitCount ==
  \A i \in Instances : \A k \in Calls(i) :
    LET v == issued[i][k].at
        id == issued[i][k].id
    IN /\ Len(id) >= 1
       /\ Len(id) = DigitCount(v)
       /\ NumLess(v, Num(62)) => Len(id) = 1
       /\ (~NumLess(v, Num(62)) /\ NumLess(v, Num(3844))) => Len(id) = 2
       /\ (~NumLess(v, Num(3844)) /\ NumLess(v, Num(238328))) => Len(id) = 3
       /\ v = NumMax => Len(id) = 9
       /\ \A l \in Calls(i) :
            NumLess(issued[i][l].at, v) => Len(issued[i][l].id) <= Len(id)

\* The calls at 3843 and at 3844 have returned IDs of 2 and of 3 characters.
C16_Witness ==
  \E i \in Instances : \E k \in Calls(i) :
    /\ k > 1
    /\ issued[i][k - 1].at = Num(3843) /\ Len(issued[i][k - 1].id) = 2
    /\ issued[i][k].at = Num(3844) /\ Len(issued[i][k].id) = 3

\* x + n, for a small n.
NumPlus(x, n) ==
  [hi |-> x.hi + ((x.lo + n) \div Limb), lo |-> (x.lo + n) % Limb]

\* C18: every counterUUID() call reads, encodes and increments the counter in
\* one step, so whatever callers make the calls on an instance and in whatever
\* order, no two of the calls return the same ID, and the counter ends as many
\* above where it was as calls were made.
C18_AtomicCalls ==
  \A i \in Instances :
    /\ \A j, k \in Calls(i) : j # k => issued[i][j].id # issued[i][k].id
    /\ Len(issued[i]) > 0 => counter[i] = NumPlus(issued[i][1].at, Len(issued[i]))

\* C18 below 2^53: the calls that found the counter below 2^53 returned IDs no
\* other call returned, and each moved the counter up by one.
C18_AtomicBelowMax ==
  \A i \in Instances :
    /\ \A j, k \in Calls(i) :
         (j # k /\ NumLess(issued[i][j].at, NumMax) /\ NumLess(issued[i][k].at, NumMax))
           => issued[i][j].id # issued[i][k].id
    /\ (Len(issued[i]) > 0 /\ NumLess(counter[i], NumMax)) =>
         counter[i] = NumPlus(issued[i][1].at, Len(issued[i]))

\* C19: what counterUUID() returns depends on the counter value and the shared
\* alphabet only: calls that found the same counter value, on whatever
\* instances, returned the same ID; the k-th ID of every instance never reset is
\* the same, so two instances issue the same IDs.
C19_SameCounterSameId ==
  /\ \A i, j \in Instances : \A k \in Calls(i) : \A l \in Calls(j) :
       issued[i][k].at = issued[j][l].at => issued[i][k].id = issued[j][l].id
  /\ \A i, j \in Instances : (~wasReset[i] /\ ~wasReset[j]) =>
       \A k \in Calls(i) \cap Calls(j) :
         /\ issued[i][k].at = Num(k - 1)
         /\ issued[i][k].id = issued[j][k].id

\* Two instances, neither ever reset, have each issued two IDs, the same two.
C19_Witness ==
  /\ Len(counter) = 2
  /\ ~wasReset[1] /\ ~wasReset[2]
  /\ Len(issued[1]) = 2 /\ Len(issued[2]) = 2
  /\ issued[1][2].id = issued[2][2].id
  /\ ret.op = "counterUUID"

====
